---- MODULE Spec2Model ----
(***************************************************************************)
(* Model of the genexomics-pipeline command-line utilities:                *)
(*   bin/metadata_integrator.py  (metadata-attachment tool)                *)
(*   bin/make_quilt_from_s3.py   (object-listing-to-package tool)          *)
(*   bin/s3_uploader.py          (asynchronous uploader)                   *)
(*   bin/shared_log.py           (shared logging helper)                   *)
(* Each tool is a sequential process; one specification per tool           *)
(* (SpecMeta, SpecPkg, SpecUp).  External services (HTTP APIs, the package *)
(* registry, the object store) are the environment: every call to them is  *)
(* recorded in `trace` and its outcome is chosen nondeterministically.     *)
(***************************************************************************)
EXTENDS Integers, Sequences, FiniteSets, TLC

VARIABLES
    tool,           \* which utility this run is: "meta", "pkg" or "up"
    loggerBound,    \* whether module shared_log has an attribute `logger`
    entry,          \* "main" (command line) or "api" (function called by a host)
    pc,             \* position of the process
    outcome,        \* "running", "returned", "raised" (api call) or "crashed"
    exit,           \* process exit code, -1 while none
    cause,          \* why the run ended as it did ("none": the work was done)
    trace,          \* external calls issued so far, in order
    clock,          \* wall clock read by datetime.now
    \* ---- metadata tool
    source,         \* args.source
    hasCred,        \* API key / token given (flag or environment)
    dry_run,        \* args.dry_run
    useRowId,       \* --smartsheet-row-id given (else --smartsheet-run-column)
    hasRunId,       \* --run-id given
    benchling_meta, \* benchling_meta argument of attach_and_push
    smartsheet_meta,\* smartsheet_meta argument of attach_and_push
    registryMeta,   \* user metadata of the package as stored in the registry
    pkgMeta,        \* self.pkg.meta once loaded
    pkgLoaded,      \* self.pkg is not None
    merged,         \* value returned by merge_meta
    mergeStart,     \* clock value when merge_meta was entered
    result,         \* kind of result returned by attach_and_push
    resp,           \* how the external metadata source answered
    published,      \* metadata of the package revision pushed to the registry
    sheet,          \* the sheet the spreadsheet API returned for the scan
    scanned,        \* value returned by get_row_by_run_column
    \* ---- packaging tool
    mode,           \* args.mode: "list" or "stdin"
    registry,       \* args.registry given
    stdinLines,     \* the lines on standard input
    pages,          \* the pages list_objects_v2 will return
    pageIdx,        \* pages fetched so far
    keys,           \* keys / key_list
    setIdx,         \* entries set so far in the loop over key_list
    manifest,       \* the quilt3.Package p: logical path -> locator
    pkgInfo,        \* metadata set on p, <<>> before set_meta
    pushes,         \* the packages pushed, in order
    \* ---- uploader
    cfgState,       \* the YAML config: "ok", "missing" or "invalid"
    bucketKnown,    \* parsed.bucket_key is a key of cfg.buckets
    rawPrefix,      \* Prefix as written in the YAML (or passed by a host)
    prefix,         \* the prefix argument of upload_path_to_s3
    sep,            \* os.sep of the platform
    pathKind,       \* input path: "missing", "file", "dir" or "other"
    tree,           \* the directory below the input path
    fileName,       \* os.path.basename of the input path
    queue,          \* relative paths of the files still to upload, walk order
    uploads,        \* object keys of the upload_file calls issued, in order
    inflight,       \* upload_file calls issued and not yet completed
    uploaded_keys,  \* uploaded_keys
    \* ---- shared_log
    _LOGGER,        \* shared_log._LOGGER: the name of a logger, or "None"
    handlers,       \* logging's loggers: name -> handlers attached, in order
    configured,     \* logger of the last Logging(...) that completed, or "None"
    returned,       \* what the latest call returned if it was get_logger()
    calls           \* number of calls made on shared_log

metaVars == <<source, hasCred, dry_run, useRowId, hasRunId, benchling_meta,
              smartsheet_meta, registryMeta, pkgMeta, pkgLoaded, merged,
              mergeStart, result, resp, published, sheet, scanned>>
procVars == <<tool, loggerBound, entry, pc, outcome, exit, cause, trace, clock>>
pkgVars == <<mode, registry, stdinLines, pages, pageIdx, keys, setIdx,
             manifest, pkgInfo, pushes>>
upVars == <<cfgState, bucketKnown, rawPrefix, prefix, sep, pathKind, tree,
            fileName, queue, uploads, inflight, uploaded_keys>>
logVars == <<_LOGGER, handlers, configured, returned, calls>>
vars == <<procVars, metaVars, pkgVars, upVars, logVars>>
notMeta == <<pkgVars, upVars, logVars>>
notPkg == <<metaVars, upVars, logVars>>
notUp == <<metaVars, pkgVars, logVars>>

\* ------------------------------------------------------------------------
\* Bounds
\* ------------------------------------------------------------------------
\* largest advance of the wall clock between two reads
MaxTick == 1
\* longest key list / number of stdin lines
MaxKeys == 3
\* most pages in a listing
MaxPages == 2
\* most files below the input directory
MaxFiles == 2
\* most sub-directories of the input directory
MaxDirs == 1
\* most rows in a sheet
MaxRows == 2
\* most calls a host makes on shared_log
MaxCalls == 4

\* ------------------------------------------------------------------------
\* Python values.  A leaf is a string, a bool, a timestamp or a list of
\* strings; a value is None, a leaf (scalar) or a dict of leaves; a metadata
\* mapping is a dict of values.
\* ------------------------------------------------------------------------
StrLeaf(x) == [k |-> "str", s |-> x, n |-> 0, l |-> <<>>]
TimeLeaf(t) == [k |-> "time", s |-> "", n |-> t, l |-> <<>>]
ListLeaf(q) == [k |-> "list", s |-> "", n |-> 0, l |-> q]
TrueLeaf == [k |-> "bool", s |-> "True", n |-> 0, l |-> <<>>]

EmptyDict == [x \in {} |-> TrueLeaf]
None == [t |-> "none", d |-> EmptyDict, a |-> StrLeaf("")]
Dict(f) == [t |-> "dict", d |-> f, a |-> StrLeaf("")]
Scalar(x) == [t |-> "scalar", d |-> EmptyDict, a |-> StrLeaf(x)]

EmptyMeta == [x \in {} |-> None]
MetaDict(f) == [t |-> "dict", m |-> f]
MetaOther(kind) == [t |-> kind, m |-> EmptyMeta]

\* Python truth value of a value / of a metadata object
Truthy(v) ==
    CASE v.t = "none" -> FALSE
      [] v.t = "dict" -> DOMAIN v.d # {}
      [] OTHER -> v.a.s # ""

MetaTruthy(pm) ==
    CASE pm.t = "none" -> FALSE
      [] pm.t = "dict" -> DOMAIN pm.m # {}
      [] OTHER -> TRUE

\* d[k] = v on a copy
Put(f, k, v) == [x \in DOMAIN f \cup {k} |-> IF x = k THEN v ELSE f[x]]
\* dict.update: every key of g overwrites, the other keys of f stay
Update(f, g) == [x \in DOMAIN f \cup DOMAIN g |-> IF x \in DOMAIN g THEN g[x] ELSE f[x]]

\* ------------------------------------------------------------------------
\* metadata_integrator.py
\* ------------------------------------------------------------------------
EntityId == "BE-1"
SheetId == "S-1"

\* BenchlingClient.get_entity: the normalized entity of a 200 response
EntityRecord ==
    Dict([entity_id |-> StrLeaf(EntityId), name |-> StrLeaf("sample"),
          schema_id |-> StrLeaf("sch"), fields |-> ListLeaf(<<"f1">>),
          url |-> StrLeaf("https://b/BE-1")])
\* BenchlingClient.get_entity: the record of a 404 response
NotFoundRecord == Dict([entity_id |-> StrLeaf(EntityId), not_found |-> TrueLeaf])
\* main: the record written when the Benchling fetch raised
BenchlingErrorRecord == Dict([entity_id |-> StrLeaf(EntityId), error |-> StrLeaf("err")])
\* SmartsheetClient: a mapped row
RowRecord == Dict([sheet_id |-> StrLeaf(SheetId), row |-> ListLeaf(<<"Run ID", "_rowId">>)])
\* SmartsheetClient.get_row_by_run_column: no row matched
NoRowRecord == Dict([sheet_id |-> StrLeaf(SheetId), row |-> StrLeaf("None")])
\* main: the record written when the Smartsheet fetch raised
SmartsheetErrorRecord == Dict([sheet_id |-> StrLeaf(SheetId), error |-> StrLeaf("err")])

\* ---- the sheet of the spreadsheet API and the scan of lines 283-303
RunColumn == "Run"
RunId == "r1"
Column(i, t) == [id |-> i, title |-> t]
Cell(c, v) == [columnId |-> c, value |-> v]
\* the columns of a sheet; titles are unique within a sheet
ColumnLists ==
    {<<>>, <<Column(1, "Note")>>, <<Column(2, "Run")>>,
     <<Column(1, "Note"), Column(2, "Run")>>}
\* the cells of a row
CellLists ==
    {<<>>, <<Cell(2, "r1")>>, <<Cell(2, "r2")>>, <<Cell(1, "r1")>>,
     <<Cell(1, "r1"), Cell(2, "r1")>>}
RowIds == <<"row1", "row2", "row3", "row4">>
\* the i-th row of a sheet has id RowIds[i]
RowLists ==
    UNION {{[i \in 1..m |-> [id |-> RowIds[i], cells |-> c[i]]] : c \in [1..m -> CellLists]}
           : m \in 0..MaxRows}
Sheets == [columns : ColumnLists, rows : RowLists]
NoSheet == [columns |-> <<>>, rows |-> <<>>]
NoneRow == [t |-> "none", m |-> <<>>]
NotScanned == [sheet_id |-> "", row |-> NoneRow]

\* {c["title"]: c["id"] for c in columns}: a later column of the same title
\* wins (and {c["id"]: c["title"]} likewise)
DictOf(columns, key, val) ==
    [k \in {columns[i][key] : i \in 1..Len(columns)} |->
        LET last == CHOOSE i \in 1..Len(columns) :
                       /\ columns[i][key] = k
                       /\ \A j \in i + 1..Len(columns) : columns[j][key] # k
        IN  columns[last][val]]

\* lines 295-298: the cells of the row by column title, str(columnId) for
\* a column the sheet does not list, then the row id
RECURSIVE MapCells(_, _, _)
MapCells(cells, id_to_title, mapped) ==
    IF cells = <<>> THEN mapped
    ELSE LET c == Head(cells)
             title == IF c.columnId \in DOMAIN id_to_title
                      THEN id_to_title[c.columnId] ELSE ToString(c.columnId)
         IN  MapCells(Tail(cells), id_to_title, Put(mapped, title, c.value))
MappedRow(row, id_to_title) ==
    Put(MapCells(row.cells, id_to_title, <<>>), "_rowId", row.id)

\* line 294: some cell of the row is in the run column and holds run_id
CellMatches(row, run_col_id, run_id) ==
    \E i \in 1..Len(row.cells) :
        row.cells[i].columnId = run_col_id /\ row.cells[i].value = run_id

\* mutant: the scan goes on to the end of the sheet and keeps the last
\* matching row
RECURSIVE ScanRowsLast(_, _, _, _)
ScanRowsLast(rows, run_col_id, run_id, id_to_title) ==
    IF rows = <<>> THEN NoneRow
    ELSE IF CellMatches(rows[Len(rows)], run_col_id, run_id)
         THEN [t |-> "dict", m |-> MappedRow(rows[Len(rows)], id_to_title)]
         ELSE ScanRowsLast(SubSeq(rows, 1, Len(rows) - 1), run_col_id, run_id, id_to_title)

\* lines 292-303: the loop over the rows, returning at the first match
RECURSIVE ScanRows(_, _, _, _)
ScanRows(rows, run_col_id, run_id, id_to_title) ==
    IF rows = <<>> THEN NoneRow
    ELSE IF CellMatches(Head(rows), run_col_id, run_id)
         THEN [t |-> "dict", m |-> MappedRow(Head(rows), id_to_title)]
         ELSE ScanRows(Tail(rows), run_col_id, run_id, id_to_title)

\* SmartsheetClient.get_row_by_run_column, lines 283-303, on the sheet of a
\* successful response
get_row_by_run_column(sh, sheet_id, run_column, run_id) ==
    LET title_to_id == DictOf(sh.columns, "title", "id")
        id_to_title == DictOf(sh.columns, "id", "title")
    IN  IF run_column \notin DOMAIN title_to_id
        THEN [sheet_id |-> sheet_id, row |-> NoneRow, error |-> "column_not_found"]
        ELSE [sheet_id |-> sheet_id,
              row |-> ScanRows(sh.rows, title_to_id[run_column], run_id, id_to_title)]

\* what a host may pass to attach_and_push / merge_meta
BenchlingArgs == {None, Dict(EmptyDict), EntityRecord, BenchlingErrorRecord}
SmartsheetArgs == {None, Dict(EmptyDict), RowRecord}

\* values left in the package by an earlier run
OldBenchling == Dict([entity_id |-> StrLeaf("BE-0"), legacy |-> StrLeaf("kept?")])
OldSmartsheet == Dict([sheet_id |-> StrLeaf("S-0"), legacy |-> StrLeaf("kept?")])
OldProvenance ==
    Dict([integrated_at |-> TimeLeaf(0), integrator |-> StrLeaf("older.py"),
          sources |-> ListLeaf(<<"benchling", "smartsheet">>),
          owner |-> StrLeaf("lab")])

\* user metadata a package can hold in the registry (quilt3 Package.meta)
RegistryMetas ==
    { MetaDict(EmptyMeta),
      MetaDict([note |-> Scalar("n1")]),
      MetaDict([note |-> Scalar("n1"), benchling |-> OldBenchling]),
      MetaDict([note |-> Scalar("n1"), smartsheet |-> OldSmartsheet]),
      MetaDict([note |-> Scalar("n1"), provenance |-> OldProvenance]),
      MetaDict([note |-> Scalar("n1"), provenance |-> Scalar("legacy")]),
      MetaDict([author |-> Scalar("a"), benchling |-> OldBenchling,
                smartsheet |-> OldSmartsheet, provenance |-> OldProvenance]),
      MetaOther("none"),
      MetaOther("scalar") }

NoMeta == MetaOther("unset")

\* now_iso_z: the clock reading, some ticks after `now`
now_iso_z(now, tick) == now + tick

\* merge_meta, lines 365-398: the returned mapping
ProvEntry(bm, sm, ts) ==
    [integrated_at |-> TimeLeaf(ts),
     integrator |-> StrLeaf("metadata_integrator.py"),
     sources |-> ListLeaf((IF Truthy(bm) THEN <<"benchling">> ELSE <<>>)
                          \o (IF Truthy(sm) THEN <<"smartsheet">> ELSE <<>>))]

\* mutant: a reserved key is updated field by field, so the fields of the
\* previous value that the new one lacks survive
DeepPut(f, k, v) ==
    IF k \in DOMAIN f /\ f[k].t = "dict" /\ v.t = "dict"
    THEN Put(f, k, Dict(Update(f[k].d, v.d)))
    ELSE Put(f, k, v)
SourcesOntoDeep(copied, bm, sm) ==
    LET m1 == IF bm.t # "none" THEN DeepPut(copied, "benchling", bm) ELSE copied
    IN  IF sm.t # "none" THEN DeepPut(m1, "smartsheet", sm) ELSE m1

\* mutant: the `is not None` tests of lines 367 and 372 are missing, so the
\* key of a source that was not supplied is set to None
SourcesOntoUnconditional(copied, bm, sm) ==
    Put(Put(copied, "benchling", bm), "smartsheet", sm)

\* lines 365-378: copy of the existing mapping, then the two reserved keys
SourcesOnto(copied, bm, sm) ==
    LET m1 == IF bm.t # "none" THEN Put(copied, "benchling", bm) ELSE copied
    IN  IF sm.t # "none" THEN Put(m1, "smartsheet", sm) ELSE m1

\* mutant: the merge starts from an empty mapping instead of dict(existing)
WithSourcesFresh(pm, bm, sm) == SourcesOnto(EmptyMeta, bm, sm)

WithSources(pm, bm, sm) ==
    LET existing == IF MetaTruthy(pm) THEN pm ELSE MetaDict(EmptyMeta)
        copied == IF existing.t = "dict" THEN existing.m ELSE EmptyMeta
    IN  SourcesOnto(copied, bm, sm)

\* mutant: the fields the existing provenance already holds win over the
\* new entry
ProvenanceKeepsOld(pm, bm, sm, ts) ==
    LET m2 == WithSources(pm, bm, sm)
        prov == IF "provenance" \in DOMAIN m2 /\ m2["provenance"].t = "dict"
                THEN m2["provenance"].d ELSE EmptyDict
    IN  Update(ProvEntry(bm, sm, ts), prov)

\* mutant: the provenance mapping is replaced by the new entry
ProvenanceReplaced(pm, bm, sm, ts) == ProvEntry(bm, sm, ts)

Provenance(pm, bm, sm, ts) ==
    LET m2 == WithSources(pm, bm, sm)
        prov == IF "provenance" \in DOMAIN m2 /\ m2["provenance"].t = "dict"
                THEN m2["provenance"].d ELSE EmptyDict
    IN  Update(prov, ProvEntry(bm, sm, ts))

merge_meta(pm, bm, sm, ts) ==
    MetaDict(Put(WithSources(pm, bm, sm), "provenance", Dict(Provenance(pm, bm, sm, ts))))

\* merge_meta, lines 381-394: `prov` is the very dict object held by the
\* package's metadata when that holds a mapping under 'provenance', so
\* prov.update also changes self.pkg.meta
MetaAfterMerge(pm, bm, sm, ts) ==
    IF /\ MetaTruthy(pm) /\ pm.t = "dict"
       /\ "provenance" \in DOMAIN pm.m /\ pm.m["provenance"].t = "dict"
    THEN MetaDict(Put(pm.m, "provenance", Dict(Provenance(pm, bm, sm, ts))))
    ELSE pm

\* ---- process steps shared by the tools
\* main returns `code`, and the process exits with it
Return(code, why) ==
    pc' = "done" /\ outcome' = "returned" /\ exit' = code /\ cause' = why
\* a function called by a host returns
Returned == pc' = "done" /\ outcome' = "returned" /\ exit' = exit /\ cause' = "none"
\* an exception nobody catches: the interpreter prints it and exits with 1
Crash(why) == pc' = "done" /\ outcome' = "crashed" /\ exit' = 1 /\ cause' = why
\* an exception leaving a function a host called
Raise(why) == pc' = "done" /\ outcome' = "raised" /\ exit' = exit /\ cause' = why
Goto(l) == pc' = l /\ outcome' = outcome /\ exit' = exit /\ cause' = cause
Call(name) == trace' = Append(trace, name)

\* metadata_integrator.py line 62, `logger = shared_log.logger`, runs when the
\* module is loaded: AttributeError unless shared_log has that attribute
MetaImport ==
    /\ tool = "meta" /\ pc = "import"
    /\ IF loggerBound
       THEN Goto(IF entry = "main" THEN "main" ELSE "attach")
       ELSE Crash("logging")
    /\ UNCHANGED <<notMeta, tool, loggerBound, entry, trace, clock, metaVars>>

\* main, lines 509-513 and 530-542: credentials and arguments
MetaCheckArgs ==
    /\ tool = "meta" /\ pc = "main"
    /\ IF ~hasCred
       THEN Return(2, "credential")
       ELSE IF source = "smartsheet" /\ ~useRowId /\ ~hasRunId
            THEN Return(2, "argument")
            ELSE Goto("fetch")
    /\ UNCHANGED <<notMeta, tool, loggerBound, entry, trace, clock, metaVars>>

\* mutant: a 404 is raised like any other HTTP error, so main records it as
\* an error
MetaFetchBenchling404Raises ==
    /\ tool = "meta" /\ pc = "fetch" /\ source = "benchling"
    /\ Call("http")
    /\ \E r \in {"ok", "404", "error"} :
          /\ resp' = r
          /\ benchling_meta' = IF r = "ok" THEN EntityRecord ELSE BenchlingErrorRecord
    /\ Goto("attach")
    /\ UNCHANGED <<notMeta, sheet, scanned, tool, loggerBound, entry, clock, source, hasCred, dry_run,
                   useRowId, hasRunId, smartsheet_meta, registryMeta, pkgMeta,
                   pkgLoaded, merged, mergeStart, result, published>>

\* main, lines 515-521: BenchlingClient.get_entity (one GET); a failure of
\* the request is recorded in the metadata instead of raised
MetaFetchBenchling ==
    /\ tool = "meta" /\ pc = "fetch" /\ source = "benchling"
    /\ Call("http")
    /\ \E r \in {"ok", "404", "error"} :
          /\ resp' = r
          /\ benchling_meta' = CASE r = "ok" -> EntityRecord
                                [] r = "404" -> NotFoundRecord
                                [] OTHER -> BenchlingErrorRecord
    /\ Goto("attach")
    /\ UNCHANGED <<notMeta, sheet, scanned, tool, loggerBound, entry, clock, source, hasCred, dry_run,
                   useRowId, hasRunId, smartsheet_meta, registryMeta, pkgMeta,
                   pkgLoaded, merged, mergeStart, result, published>>

\* main, lines 536-554: SmartsheetClient.get_row_by_rowid (GET row, then GET
\* columns) or get_row_by_run_column (GET sheet, scan); `stops` are the
\* answers on which main returns 3
FetchSmartsheet(stops) ==
    /\ tool = "meta" /\ pc = "fetch" /\ source = "smartsheet"
    /\ \E http \in IF useRowId THEN {"ok", "error", "error2"} ELSE {"ok", "error"},
          sh \in Sheets :
          LET found == get_row_by_run_column(sh, SheetId, RunColumn, RunId)
              scan == ~useRowId /\ http = "ok"
              r == CASE ~scan -> http
                     [] "error" \in DOMAIN found -> "column_not_found"
                     [] found.row = NoneRow -> "nomatch"
                     [] OTHER -> "ok"
          IN
          /\ scan \/ sh = NoSheet
          /\ sheet' = sh
          /\ scanned' = IF scan THEN found ELSE scanned
          /\ resp' = r
          /\ trace' = IF useRowId /\ r # "error"
                      THEN trace \o <<"http", "http">>
                      ELSE Append(trace, "http")
          /\ IF r \in stops
             THEN Return(3, "no_match") /\ smartsheet_meta' = smartsheet_meta
             ELSE /\ Goto("attach")
                  /\ smartsheet_meta' =
                        CASE r = "ok" -> RowRecord
                          [] r \in {"nomatch", "column_not_found"} -> NoRowRecord
                          [] OTHER -> SmartsheetErrorRecord
    /\ UNCHANGED <<notMeta, tool, loggerBound, entry, clock, source, hasCred, dry_run,
                   useRowId, hasRunId, benchling_meta, registryMeta, pkgMeta,
                   pkgLoaded, merged, mergeStart, result, published>>

\* mutant: the `row is None` test of lines 546-550 is missing
MetaFetchSmartsheetUnchecked == FetchSmartsheet({})

\* mutant: a failed request ends the run like a missing row does
MetaFetchSmartsheetAborts ==
    FetchSmartsheet({"nomatch", "column_not_found", "error", "error2"})

\* no matching row (also: no such column) makes main return 3
MetaFetchSmartsheet == FetchSmartsheet({"nomatch", "column_not_found"})

\* attach_and_push line 420 -> merge_meta lines 361-363 -> load: the package
\* is browsed in the registry; a failure is re-raised (main: return 1)
MetaLoad ==
    /\ tool = "meta" /\ pc = "attach" /\ ~pkgLoaded
    /\ Call("browse")
    /\ \E ok \in BOOLEAN :
          IF ok
          THEN Goto("merge") /\ pkgLoaded' = TRUE /\ pkgMeta' = registryMeta
          ELSE /\ (IF entry = "main" THEN Return(1, "registry") ELSE Raise("registry"))
               /\ UNCHANGED <<pkgLoaded, pkgMeta>>
    /\ UNCHANGED <<notMeta, sheet, scanned, tool, loggerBound, entry, clock, source, hasCred, dry_run,
                   useRowId, hasRunId, benchling_meta, smartsheet_meta,
                   registryMeta, merged, mergeStart, result, resp, published>>

\* merge_meta lines 365-398 and attach_and_push lines 420-425: the merge,
\* then the dry-run return (main: lines 526-527 / 558-559 return 0).
\* `honoured`: the dry_run test is made; `early`: set_meta is called first
MergeStep(honoured, early) ==
    /\ tool = "meta" /\ pc = "merge"
    /\ \E tick \in 0..MaxTick :
          LET ts == now_iso_z(clock, tick) IN
          /\ clock' = ts
          /\ mergeStart' = clock
          /\ merged' = merge_meta(pkgMeta, benchling_meta, smartsheet_meta, ts)
          /\ pkgMeta' = MetaAfterMerge(pkgMeta, benchling_meta, smartsheet_meta, ts)
    /\ trace' = IF early THEN Append(trace, "set_meta") ELSE trace
    /\ IF dry_run /\ honoured
       THEN /\ result' = "dry_run"
            /\ IF entry = "main" THEN Return(0, "none") ELSE Returned
       ELSE Goto(IF early THEN "push" ELSE "set_meta") /\ result' = result
    /\ UNCHANGED <<notMeta, sheet, scanned, tool, loggerBound, entry, source, hasCred, dry_run,
                   useRowId, hasRunId, benchling_meta, smartsheet_meta,
                   registryMeta, pkgLoaded, resp, published>>

\* mutant: the `if dry_run` return of lines 423-425 is missing
MetaMergeIgnoresDryRun == MergeStep(FALSE, FALSE)
\* mutant: set_meta is called before the `if dry_run` test
MetaMergeWritesFirst == MergeStep(TRUE, TRUE)

MetaMerge == MergeStep(TRUE, FALSE)

\* mutant: an exception of set_meta is swallowed and the push goes ahead
MetaSetMetaSwallows ==
    /\ tool = "meta" /\ pc = "set_meta"
    /\ Call("set_meta")
    /\ \E ok \in BOOLEAN : pkgMeta' = IF ok THEN merged ELSE pkgMeta
    /\ Goto("push")
    /\ UNCHANGED <<notMeta, sheet, scanned, tool, loggerBound, entry, clock, source, hasCred, dry_run,
                   useRowId, hasRunId, benchling_meta, smartsheet_meta,
                   registryMeta, pkgLoaded, merged, mergeStart, result, resp,
                   published>>

\* attach_and_push lines 431-436: self.pkg.set_meta(merged)
MetaSetMeta ==
    /\ tool = "meta" /\ pc = "set_meta"
    /\ Call("set_meta")
    /\ \E ok \in BOOLEAN :
          IF ok
          THEN Goto("push") /\ pkgMeta' = merged
          ELSE (IF entry = "main" THEN Return(1, "registry") ELSE Raise("registry")) /\ pkgMeta' = pkgMeta
    /\ UNCHANGED <<notMeta, sheet, scanned, tool, loggerBound, entry, clock, source, hasCred, dry_run,
                   useRowId, hasRunId, benchling_meta, smartsheet_meta,
                   registryMeta, pkgLoaded, merged, mergeStart, result, resp,
                   published>>

\* attach_and_push lines 438-446: self.pkg.push(...), then the result
MetaPush ==
    /\ tool = "meta" /\ pc = "push"
    /\ Call("push")
    /\ \E ok \in BOOLEAN :
          IF ok
          THEN /\ result' = "pushed"
               /\ published' = pkgMeta
               /\ IF entry = "main" THEN Return(0, "none") ELSE Returned
          ELSE /\ (IF entry = "main" THEN Return(1, "registry") ELSE Raise("registry"))
               /\ UNCHANGED <<result, published>>
    /\ UNCHANGED <<notMeta, sheet, scanned, tool, loggerBound, entry, clock, source, hasCred, dry_run,
                   useRowId, hasRunId, benchling_meta, smartsheet_meta,
                   registryMeta, pkgMeta, pkgLoaded, merged, mergeStart, resp>>

\* ---- shared_log.py: the loggers of the logging module, by name
Basenames == {"a", "b"}
\* foldername: None or a directory
Foldernames == {"None", "logs"}
\* logger_key: None, a key of the host, or the name of the fallback logger
LoggerKeys == {"None", "k", "shared_log_fallback"}
\* line 161: logger_key or f"{basename}|{foldername}" / f"{basename}|console"
logger_name(basename, foldername, logger_key) ==
    IF logger_key # "None" THEN logger_key
    ELSE basename \o "|" \o (IF foldername # "None" THEN foldername ELSE "console")
LoggerNames ==
    {logger_name(b, f, k) : b \in Basenames, f \in Foldernames, k \in LoggerKeys}
    \cup {"shared_log_fallback"}

\* shared_log before any call: no logger configured, no handler attached
LogIdle ==
    /\ _LOGGER = "None" /\ handlers = [n \in LoggerNames |-> <<>>]
    /\ configured = "None" /\ returned = "NotCalled" /\ calls = 0

\* the variables of the uploader when another tool runs
UpIdle ==
    /\ cfgState = "ok" /\ bucketKnown = FALSE /\ rawPrefix = <<>> /\ prefix = <<>>
    /\ sep = "/" /\ pathKind = "missing" /\ tree = [files |-> <<>>, dirs |-> <<>>]
    /\ fileName = <<>> /\ queue = <<>> /\ uploads = <<>> /\ inflight = 0
    /\ uploaded_keys = <<>>

\* the variables of the packaging tool when another tool runs
PkgIdle ==
    /\ mode = "list" /\ registry = FALSE /\ stdinLines = <<>> /\ pages = <<>>
    /\ pageIdx = 0 /\ keys = <<>> /\ setIdx = 0 /\ manifest = <<>>
    /\ pkgInfo = <<>> /\ pushes = <<>>

\* the metadata tool: a command line for main, or a host's call of
\* attach_and_push on a fresh MetadataIntegrator
InitMeta ==
    /\ tool = "meta" /\ pc = "import" /\ outcome = "running" /\ exit = -1
    /\ cause = "none" /\ PkgIdle /\ UpIdle /\ LogIdle
    /\ trace = <<>> /\ clock = 1
    /\ loggerBound \in BOOLEAN
    /\ dry_run \in BOOLEAN
    /\ registryMeta \in RegistryMetas
    /\ pkgMeta = NoMeta /\ pkgLoaded = FALSE /\ merged = NoMeta
    /\ mergeStart = 0 /\ result = "none" /\ resp = "none" /\ published = NoMeta
    /\ sheet = NoSheet /\ scanned = NotScanned
    /\ \/ /\ entry = "main"
          /\ source \in {"benchling", "smartsheet"}
          /\ hasCred \in BOOLEAN
          /\ useRowId \in BOOLEAN /\ hasRunId \in BOOLEAN
          /\ benchling_meta = None /\ smartsheet_meta = None
       \/ /\ entry = "api"
          /\ source = "none" /\ hasCred = TRUE
          /\ useRowId = FALSE /\ hasRunId = FALSE
          /\ benchling_meta \in BenchlingArgs
          /\ smartsheet_meta \in SmartsheetArgs

NextMeta ==
    \/ MetaImport \/ MetaCheckArgs \/ MetaFetchBenchling \/ MetaFetchSmartsheet
    \/ MetaLoad \/ MetaMerge \/ MetaSetMeta \/ MetaPush

SpecMeta == InitMeta /\ [][NextMeta]_vars

\* ------------------------------------------------------------------------
\* make_quilt_from_s3.py
\* ------------------------------------------------------------------------
Bucket == "bkt"
Namespace == "team"
ObjectKeys == {"a", "b"}
\* a listed object: its Key, "" when the entry carries none
Objects == ObjectKeys \cup {""}
\* lines on stdin: keys, blank lines, keys within white space
StdinLineSet == {"a", "b", " a ", " "}

SeqsUpTo(S, n) == UNION {[1..m -> S] : m \in 0..n}
PageSet == {<<>>, <<"a">>, <<"", "b">>, <<"a", "b">>}

\* str.strip on the lines of StdinLineSet
strip(line) ==
    CASE line = " a " -> "a"
      [] line = " " -> ""
      [] OTHER -> line

\* main line 225: [line.strip() for line in sys.stdin if line.strip()]
RECURSIVE StdinKeys(_)
StdinKeys(lines) ==
    IF lines = <<>> THEN <<>>
    ELSE (IF strip(Head(lines)) # "" THEN <<strip(Head(lines))>> ELSE <<>>)
         \o StdinKeys(Tail(lines))

\* list_s3_keys lines 73-83: the keys of one page
RECURSIVE PageKeys(_)
PageKeys(contents) ==
    IF contents = <<>> THEN <<>>
    ELSE (IF Head(contents) # "" THEN <<Head(contents)>> ELSE <<>>)
         \o PageKeys(Tail(contents))

\* mutant: the locator misses the bucket
s3_urlNoBucket(bucket, key) == "s3://" \o key
\* make_package_from_keys line 147
s3_url(bucket, key) == "s3://" \o bucket \o "/" \o key

\* an exception out of quilt3 or boto3: main returns 1, a host sees it raised
Fail(why) == IF entry = "main" THEN Return(1, why) ELSE Raise(why)

\* line 38, `logger = shared_log.logger`, runs when the module is loaded
PkgImport ==
    /\ tool = "pkg" /\ pc = "import"
    /\ IF loggerBound
       THEN Goto(IF entry = "main" THEN mode ELSE "make")
       ELSE Crash("logging")
    /\ UNCHANGED <<notPkg, tool, loggerBound, entry, trace, clock, pkgVars>>

\* mutant: the exception of a page is swallowed and the keys collected so
\* far are returned
PkgListPagePartial ==
    /\ tool = "pkg" /\ pc = "list" /\ pageIdx < Len(pages)
    /\ Call("list")
    /\ \E ok \in BOOLEAN :
          IF ok
          THEN /\ keys' = keys \o PageKeys(pages[pageIdx + 1])
               /\ pageIdx' = pageIdx + 1
               /\ Goto(IF pageIdx + 1 = Len(pages) THEN "check" ELSE "list")
          ELSE Goto("check") /\ UNCHANGED <<keys, pageIdx>>
    /\ UNCHANGED <<notPkg, tool, loggerBound, entry, clock, mode, registry,
                   stdinLines, pages, setIdx, manifest, pkgInfo, pushes>>

\* main line 222 -> list_s3_keys lines 71-89: one page of the listing; an
\* exception is logged and re-raised, and main returns 1
PkgListPage ==
    /\ tool = "pkg" /\ pc = "list" /\ pageIdx < Len(pages)
    /\ Call("list")
    /\ \E ok \in BOOLEAN :
          IF ok
          THEN /\ keys' = keys \o PageKeys(pages[pageIdx + 1])
               /\ pageIdx' = pageIdx + 1
               /\ Goto(IF pageIdx + 1 = Len(pages) THEN "check" ELSE "list")
          ELSE Return(1, "listing") /\ UNCHANGED <<keys, pageIdx>>
    /\ UNCHANGED <<notPkg, tool, loggerBound, entry, clock, mode, registry,
                   stdinLines, pages, setIdx, manifest, pkgInfo, pushes>>

\* main lines 224-225
PkgReadStdin ==
    /\ tool = "pkg" /\ pc = "stdin"
    /\ keys' = StdinKeys(stdinLines)
    /\ Goto("check")
    /\ UNCHANGED <<notPkg, tool, loggerBound, entry, trace, clock, mode,
                   registry, stdinLines, pages, pageIdx, setIdx, manifest,
                   pkgInfo, pushes>>

\* main lines 227-231: nothing to package, "Exiting with code 2"
PkgCheckKeys ==
    /\ tool = "pkg" /\ pc = "check"
    /\ IF keys = <<>> THEN Return(2, "empty_keys") ELSE Goto("make")
    /\ UNCHANGED <<notPkg, tool, loggerBound, entry, trace, clock, pkgVars>>

\* make_package_from_keys lines 129-139: ValueError on an empty key list
\* (main lines 245-247: return 3), else a fresh Package and the loop over
\* key_list.  `checked`: the `if not key_list` test is made
MakeStep(checked) ==
    /\ tool = "pkg" /\ pc = "make"
    /\ IF keys = <<>> /\ checked
       THEN IF entry = "main" THEN Return(3, "empty_keys") ELSE Raise("ValueError")
       ELSE Goto(IF keys = <<>> THEN "set_meta" ELSE "set")
    /\ manifest' = <<>> /\ setIdx' = 0
    /\ UNCHANGED <<notPkg, tool, loggerBound, entry, trace, clock, mode,
                   registry, stdinLines, pages, pageIdx, keys, pkgInfo, pushes>>

\* mutant: the `if not key_list` test of lines 130-132 is missing
PkgMakeUnchecked == MakeStep(FALSE)

PkgMake == MakeStep(TRUE)

\* lines 142-151: p = p.set(logical_path, s3_url) for the next key
PkgSetEntry ==
    /\ tool = "pkg" /\ pc = "set" /\ setIdx < Len(keys)
    /\ Call("set")
    /\ \E ok \in BOOLEAN :
          IF ok
          THEN LET key == keys[setIdx + 1] IN
               /\ manifest' = Put(manifest, key, s3_url(Bucket, key))
               /\ setIdx' = setIdx + 1
               /\ Goto(IF setIdx + 1 = Len(keys) THEN "set_meta" ELSE "set")
          ELSE Fail("registry") /\ UNCHANGED <<manifest, setIdx>>
    /\ UNCHANGED <<notPkg, tool, loggerBound, entry, clock, mode, registry,
                   stdinLines, pages, pageIdx, keys, pkgInfo, pushes>>

\* mutant: the registry given on the command line is not configured
\* before the push
PkgSetMetaSkipsConfig ==
    /\ tool = "pkg" /\ pc = "set_meta"
    /\ Call("set_meta")
    /\ \E ok \in BOOLEAN :
          IF ok
          THEN /\ pkgInfo' = <<[created_at |-> clock, source_bucket |-> Bucket,
                                num_objects |-> Len(keys),
                                package_base |-> "from-s3"]>>
               /\ Goto("push")
          ELSE Fail("registry") /\ pkgInfo' = pkgInfo
    /\ UNCHANGED <<notPkg, tool, loggerBound, entry, clock, mode, registry,
                   stdinLines, pages, pageIdx, keys, setIdx, manifest, pushes>>

\* lines 153-159: p = p.set_meta({...})
PkgSetMeta ==
    /\ tool = "pkg" /\ pc = "set_meta"
    /\ Call("set_meta")
    /\ \E ok \in BOOLEAN :
          IF ok
          THEN /\ pkgInfo' = <<[created_at |-> clock, source_bucket |-> Bucket,
                                num_objects |-> Len(keys),
                                package_base |-> "from-s3"]>>
               /\ Goto(IF registry THEN "config" ELSE "push")
          ELSE Fail("registry") /\ pkgInfo' = pkgInfo
    /\ UNCHANGED <<notPkg, tool, loggerBound, entry, clock, mode, registry,
                   stdinLines, pages, pageIdx, keys, setIdx, manifest, pushes>>

\* lines 164-170: quilt3.config(default_remote_registry=registry)
PkgConfig ==
    /\ tool = "pkg" /\ pc = "config"
    /\ Call("config")
    /\ \E ok \in BOOLEAN : IF ok THEN Goto("push") ELSE Fail("registry")
    /\ UNCHANGED <<notPkg, tool, loggerBound, entry, clock, pkgVars>>

\* lines 172-181: p.push(full_name, ..., selector_fn=selector); main lines
\* 242-243 return 0
PkgPush ==
    /\ tool = "pkg" /\ pc = "push"
    /\ Call("push")
    /\ \E ok \in BOOLEAN :
          IF ok
          THEN /\ pushes' = Append(pushes,
                     [name |-> Namespace \o "/from-s3-",
                      entries |-> manifest, meta |-> pkgInfo,
                      selector_fn |-> "selector_fn_copy_local"])
               /\ IF entry = "main" THEN Return(0, "none") ELSE Returned
          ELSE Fail("registry") /\ pushes' = pushes
    /\ UNCHANGED <<notPkg, tool, loggerBound, entry, clock, mode, registry,
                   stdinLines, pages, pageIdx, keys, setIdx, manifest, pkgInfo>>

\* the variables of the metadata tool when another tool runs
MetaIdle ==
    /\ source = "none" /\ hasCred = FALSE /\ dry_run = FALSE
    /\ useRowId = FALSE /\ hasRunId = FALSE
    /\ benchling_meta = None /\ smartsheet_meta = None
    /\ registryMeta = NoMeta /\ pkgMeta = NoMeta /\ pkgLoaded = FALSE
    /\ merged = NoMeta /\ mergeStart = 0 /\ result = "none" /\ resp = "none"
    /\ published = NoMeta /\ sheet = NoSheet /\ scanned = NotScanned

\* the packaging tool: a command line for main (keys listed from the bucket
\* or read from stdin), or a host's call of make_package_from_keys
InitPkg ==
    /\ tool = "pkg" /\ pc = "import" /\ outcome = "running" /\ exit = -1
    /\ cause = "none" /\ MetaIdle /\ UpIdle /\ LogIdle
    /\ trace = <<>> /\ clock = 1
    /\ loggerBound \in BOOLEAN
    /\ registry \in BOOLEAN
    /\ pageIdx = 0 /\ setIdx = 0 /\ manifest = <<>> /\ pkgInfo = <<>>
    /\ pushes = <<>>
    /\ \/ /\ entry = "main" /\ mode = "list"
          /\ pages \in SeqsUpTo(PageSet, MaxPages) \ {<<>>}
          /\ stdinLines = <<>> /\ keys = <<>>
       \/ /\ entry = "main" /\ mode = "stdin"
          /\ stdinLines \in SeqsUpTo(StdinLineSet, MaxKeys)
          /\ pages = <<>> /\ keys = <<>>
       \/ /\ entry = "api" /\ mode = "list"
          /\ keys \in SeqsUpTo(ObjectKeys, MaxKeys)
          /\ pages = <<>> /\ stdinLines = <<>>

NextPkg ==
    \/ PkgImport \/ PkgListPage \/ PkgReadStdin \/ PkgCheckKeys \/ PkgMake
    \/ PkgSetEntry \/ PkgSetMeta \/ PkgConfig \/ PkgPush

SpecPkg == InitPkg /\ [][NextPkg]_vars

\* ------------------------------------------------------------------------
\* s3_uploader.py.  Paths, prefixes and object keys are sequences of
\* characters.
\* ------------------------------------------------------------------------
\* file names; a backslash is an ordinary character of a POSIX file name
NameSet(sp) == {<<"a">>, <<"b">>} \cup (IF sp = "/" THEN {<<"a", "\\", "b">>} ELSE {})
DirNames == {<<"d">>, <<"e">>}
\* a bucket entry without a Prefix key, and the value None (YAML null, or
\* the default of upload_path_to_s3's prefix argument)
AbsentPrefix == <<"<absent>">>
NullPrefix == <<"<None>">>
\* Prefix values of the YAML: absent, null, empty, plain, with slashes around
\* (one or several), nothing but a slash, nested, written with a backslash
PrefixSet ==
    {AbsentPrefix, NullPrefix, <<>>, <<"p">>, <<"/", "p", "/">>,
     <<"/", "/", "p", "/">>, <<"/">>, <<"p", "/", "q", "/">>,
     <<"p", "\\", "q">>}

Distinct(q) == \A i, j \in 1..Len(q) : i # j => q[i] # q[j]
FileLists(sp) == {q \in SeqsUpTo(NameSet(sp), MaxFiles) : Distinct(q)}

RECURSIVE CountIn(_)
CountIn(dirs) == IF dirs = <<>> THEN 0 ELSE Len(Head(dirs).files) + CountIn(Tail(dirs))
\* number of regular files below the input directory
CountFiles(t) == Len(t.files) + CountIn(t.dirs)

\* directories a walk can meet: files of the root, then sub-directories
Trees(sp) ==
    {t \in [files : FileLists(sp),
            dirs : SeqsUpTo([name : DirNames, files : FileLists(sp)], MaxDirs)] :
        /\ CountFiles(t) <= MaxFiles
        /\ \A i, j \in 1..Len(t.dirs) : i # j => t.dirs[i].name # t.dirs[j].name}

\* str.replace(a, b) for single characters
Replace(str, a, b) == [i \in 1..Len(str) |-> IF str[i] = a THEN b ELSE str[i]]
RECURSIVE lstrip(_, _)
lstrip(str, c) == IF str # <<>> /\ Head(str) = c THEN lstrip(Tail(str), c) ELSE str
RECURSIVE rstrip(_, _)
rstrip(str, c) ==
    IF str # <<>> /\ str[Len(str)] = c THEN rstrip(SubSeq(str, 1, Len(str) - 1), c) ELSE str

\* S3BucketConfig.__init__ line 182: bucket_cfg.get("Prefix", "") or ""
ConfiguredPrefix(raw) == IF raw \in {AbsentPrefix, NullPrefix, <<>>} THEN <<>> ELSE raw

\* mutant: one slash is removed at each end
_normalize_prefixOnce(pfx) ==
    IF pfx \in {NullPrefix, <<>>} THEN <<>>
    ELSE LET l == IF Head(pfx) = "/" THEN Tail(pfx) ELSE pfx
         IN  IF l # <<>> /\ l[Len(l)] = "/" THEN SubSeq(l, 1, Len(l) - 1) ELSE l

\* lines 88-94: "" for None and for "", else the slashes off both ends
_normalize_prefix(pfx) ==
    IF pfx \in {NullPrefix, <<>>} THEN <<>> ELSE rstrip(lstrip(pfx, "/"), "/")

\* mutant: the backslashes are left in the key
_make_s3_keyRaw(pfx, relative_path) ==
    LET rp == lstrip(relative_path, "/")
    IN  IF pfx # <<>> THEN pfx \o <<"/">> \o rp ELSE rp

\* lines 97-109
_make_s3_key(pfx, relative_path) ==
    LET rp == lstrip(Replace(relative_path, "\\", "/"), "/")
    IN  IF pfx # <<>> THEN pfx \o <<"/">> \o rp ELSE rp

\* lines 312-313: os.path.relpath(os.path.join(root, fname), path), where
\* root is path itself (dir = <<>>) or path/dir
relpath(dir, fname, sp) == IF dir = <<>> THEN fname ELSE dir \o <<sp>> \o fname

\* lines 310-313: os.walk, top down: the relative paths in walk order
RECURSIVE WalkDirs(_, _)
WalkDirs(dirs, sp) ==
    IF dirs = <<>> THEN <<>>
    ELSE [i \in 1..Len(Head(dirs).files) |->
              relpath(Head(dirs).name, Head(dirs).files[i], sp)]
         \o WalkDirs(Tail(dirs), sp)
Walk(t, sp) == [i \in 1..Len(t.files) |-> relpath(<<>>, t.files[i], sp)] \o WalkDirs(t.dirs, sp)

\* shared_log.py line 275: the parameters of log_footer
LogFooterParams == {"start_time", "success", "error_message", "extra"}
\* s3_uploader.py line 402: the arguments of the closing log_footer call
FooterArgs == {"start_time", "success", "objects_uploaded"}

\* an exception caught by _run whose handler logs through shared_log.logger:
\* `code` is returned if that attribute exists; if not, the handler raises
\* AttributeError, main's handler (lines 436-439) raises it again, and the
\* interpreter exits with 1
Handled(code, why) == IF loggerBound THEN Return(code, why) ELSE Crash("logging")

\* _run lines 356-367: S3BucketConfig(...) (lines 150-187 keep the
\* normalized Prefix of the bucket)
UpLoadConfig ==
    /\ tool = "up" /\ pc = "config"
    /\ IF cfgState = "ok"
       THEN Goto("bucket") /\ prefix' = _normalize_prefix(ConfiguredPrefix(rawPrefix))
       ELSE Handled(2, "config") /\ prefix' = prefix
    /\ UNCHANGED <<notUp, tool, loggerBound, entry, trace, clock, cfgState,
                   bucketKnown, rawPrefix, sep, pathKind, tree, fileName, queue,
                   uploads, inflight, uploaded_keys>>

\* _run lines 369-375: cfg.get_bucket(parsed.bucket_key)
UpGetBucket ==
    /\ tool = "up" /\ pc = "bucket"
    /\ IF bucketKnown THEN Goto("path") ELSE Handled(2, "config")
    /\ UNCHANGED <<notUp, tool, loggerBound, entry, trace, clock, upVars>>

\* _run lines 377-384: the run header, then os.path.exists(parsed.input)
UpCheckPath ==
    /\ tool = "up" /\ pc = "path"
    /\ IF pathKind = "missing" THEN Handled(3, "input_path") ELSE Goto("start")
    /\ UNCHANGED <<notUp, tool, loggerBound, entry, trace, clock, upVars>>

\* _run lines 391-397: logger.info("Starting upload"); its AttributeError is
\* caught at line 415, where the handler logs the same way
UpStart ==
    /\ tool = "up" /\ pc = "start"
    /\ IF loggerBound THEN Goto("enter") ELSE Crash("logging")
    /\ UNCHANGED <<notUp, tool, loggerBound, entry, trace, clock, upVars>>

\* upload_path_to_s3 lines 288-321: the client is opened and the path is
\* taken as a file, as a directory to walk, or rejected with ValueError
\* (_run lines 410-413: return 3)
UpEnter ==
    /\ tool = "up" /\ pc = "enter"
    /\ Call("client")
    /\ CASE pathKind = "file" -> Goto("issue") /\ queue' = <<fileName>>
         [] pathKind = "dir" ->
              /\ queue' = Walk(tree, sep)
              /\ Goto(IF Walk(tree, sep) = <<>> THEN "finish" ELSE "issue")
         [] OTHER ->
              /\ queue' = queue
              /\ IF entry = "main" THEN Return(3, "input_path") ELSE Raise("ValueError")
    /\ UNCHANGED <<notUp, tool, loggerBound, entry, clock, cfgState,
                   bucketKnown, rawPrefix, prefix, sep, pathKind, tree, fileName,
                   uploads, inflight, uploaded_keys>>

\* lines 301-303 and 312-316: the key of the next file, a log record through
\* shared_log.logger, and the upload_file call.  `key(p, r)` builds the key
IssueStep(key(_, _)) ==
    /\ tool = "up" /\ pc = "issue" /\ queue # <<>>
    /\ IF loggerBound
       THEN /\ uploads' = Append(uploads, key(_normalize_prefix(prefix), Head(queue)))
            /\ inflight' = inflight + 1
            /\ Goto("await")
       ELSE Raise("logging") /\ UNCHANGED <<uploads, inflight>>
    /\ UNCHANGED <<notUp, tool, loggerBound, entry, trace, clock, cfgState,
                   bucketKnown, rawPrefix, prefix, sep, pathKind, tree, fileName,
                   queue, uploaded_keys>>

\* mutant: the upload of the next file is started while the previous call
\* is still awaited (tasks gathered instead of awaited one by one)
UpIssueEager ==
    \/ IssueStep(_make_s3_key)
    \/ /\ tool = "up" /\ pc = "await" /\ loggerBound /\ inflight < Len(queue)
       /\ uploads' = Append(uploads,
                       _make_s3_key(_normalize_prefix(prefix), queue[inflight + 1]))
       /\ inflight' = inflight + 1
       /\ UNCHANGED <<notUp, procVars, cfgState, bucketKnown, rawPrefix, prefix,
                      sep, pathKind, tree, fileName, queue, uploaded_keys>>

UpIssue == IssueStep(_make_s3_key)

\* lines 303-306 and 316-317: upload_file completes or raises (_run lines
\* 405-408 and 415-418: return 1).  `stops`: an exception ends the loop
AwaitStep(stops) ==
    /\ tool = "up" /\ pc = "await"
    /\ inflight' = inflight - 1
    /\ \E r \in {"ok", "ClientError", "Exception"} :
          IF r = "ok"
          THEN /\ uploaded_keys' = Append(uploaded_keys, uploads[Len(uploads)])
               /\ queue' = Tail(queue)
               /\ Goto(IF Tail(queue) = <<>> THEN "finish" ELSE "issue")
          ELSE /\ uploaded_keys' = uploaded_keys
               /\ IF stops
                  THEN /\ queue' = queue
                       /\ IF entry = "main" THEN Return(1, "upload") ELSE Raise("upload")
                  ELSE /\ queue' = Tail(queue)
                       /\ pc' = IF Tail(queue) = <<>> THEN "finish" ELSE "issue"
                       /\ outcome' = outcome /\ exit' = exit /\ cause' = "upload"
    /\ UNCHANGED <<notUp, tool, loggerBound, entry, trace, clock, cfgState,
                   bucketKnown, rawPrefix, prefix, sep, pathKind, tree, fileName,
                   uploads>>

\* mutant: a failed upload is skipped and the walk goes on
UpAwaitKeepsGoing == AwaitStep(FALSE)

UpAwait == AwaitStep(TRUE)

\* upload_path_to_s3 lines 305-306 and 318-319: a last log record and the
\* return of uploaded_keys; then _run lines 399-403: the footer call and
\* return 0.  log_footer takes `accepted`; an argument it does not take is
\* a TypeError, caught at line 415: return 1
FinishStep(accepted) ==
    /\ tool = "up" /\ pc = "finish"
    /\ IF ~loggerBound
       THEN Raise("logging")
       ELSE IF entry = "api"
            THEN pc' = "done" /\ outcome' = "returned" /\ exit' = exit /\ cause' = cause
            ELSE IF FooterArgs \subseteq accepted
                 THEN Return(0, "none")
                 ELSE Return(1, "logging")
    /\ UNCHANGED <<notUp, tool, loggerBound, entry, trace, clock, upVars>>

UpFinish == FinishStep(LogFooterParams)

\* the uploader: a command line for main, or a host's call of upload_path_to_s3
InitUp ==
    /\ tool = "up" /\ outcome = "running" /\ exit = -1 /\ cause = "none"
    /\ MetaIdle /\ PkgIdle /\ LogIdle
    /\ trace = <<>> /\ clock = 1
    /\ loggerBound \in BOOLEAN
    /\ queue = <<>> /\ uploads = <<>> /\ inflight = 0 /\ uploaded_keys = <<>>
    /\ entry \in {"main", "api"}
    /\ pc = IF entry = "main" THEN "config" ELSE "enter"
    /\ \/ /\ entry = "main"
          /\ \/ cfgState \in {"missing", "invalid"} /\ bucketKnown = TRUE
             \/ cfgState = "ok" /\ bucketKnown = FALSE
          /\ rawPrefix = <<>> /\ prefix = <<>> /\ sep = "/"
          /\ pathKind = "missing" /\ tree = [files |-> <<>>, dirs |-> <<>>]
          /\ fileName = <<>>
       \/ /\ cfgState = "ok" /\ bucketKnown = TRUE
          /\ rawPrefix \in PrefixSet
          /\ entry = "api" => rawPrefix # AbsentPrefix
          /\ prefix = IF entry = "main" THEN <<>> ELSE rawPrefix
          /\ sep \in {"/", "\\"}
          /\ \/ /\ pathKind \in {"missing", "other"}
                /\ tree = [files |-> <<>>, dirs |-> <<>>] /\ fileName = <<>>
             \/ /\ pathKind = "file"
                /\ tree = [files |-> <<>>, dirs |-> <<>>]
                /\ fileName \in NameSet(sep)
             \/ /\ pathKind = "dir"
                /\ tree \in Trees(sep) /\ fileName = <<>>

NextUp ==
    \/ UpLoadConfig \/ UpGetBucket \/ UpCheckPath \/ UpStart \/ UpEnter
    \/ UpIssue \/ UpAwait \/ UpFinish

SpecUp == InitUp /\ [][NextUp]_vars

\* ------------------------------------------------------------------------
\* shared_log.py: a host program calling Logging(...) and get_logger()
\* ------------------------------------------------------------------------
\* Logging.__init__ lines 149-198.  The folder is made first (line 165; a
\* failure leaves everything as it was); the handlers of the named logger
\* are removed (`removes`), a console handler and a file handler are added
\* as asked; opening the log file may raise (lines 190-193), which leaves
\* the logger without file handler and _LOGGER as it was
LoggingStep(removes) ==
    /\ tool = "log" /\ calls < MaxCalls
    /\ calls' = calls + 1
    /\ \E basename \in Basenames, foldername \in Foldernames,
          logger_key \in LoggerKeys, console \in BOOLEAN,
          io \in {"ok", "mkdir_fails", "open_fails"} :
          LET name == logger_name(basename, foldername, logger_key)
              kept == IF removes THEN <<>> ELSE handlers[name]
              withConsole == IF console THEN Append(kept, "console") ELSE kept
              withFile == IF foldername # "None" THEN Append(withConsole, "file")
                          ELSE withConsole
          IN  /\ foldername = "None" => io = "ok"
              /\ CASE io = "mkdir_fails" -> UNCHANGED <<handlers, _LOGGER, configured>>
                   [] io = "open_fails" ->
                        /\ handlers' = [handlers EXCEPT ![name] = withConsole]
                        /\ UNCHANGED <<_LOGGER, configured>>
                   [] OTHER ->
                        /\ handlers' = [handlers EXCEPT ![name] = withFile]
                        /\ _LOGGER' = name /\ configured' = name
    /\ returned' = "NotCalled"
    /\ UNCHANGED <<procVars, metaVars, pkgVars, upVars>>

\* mutant: the handlers already on the logger are not removed (lines
\* 172-174 missing)
LoggingKeepsHandlers == LoggingStep(FALSE)

LoggingCall == LoggingStep(TRUE)

\* get_logger lines 218-231: _LOGGER, or the fallback logger, which gets a
\* console handler if it has no handler yet and becomes _LOGGER
get_loggerCall ==
    /\ tool = "log" /\ calls < MaxCalls
    /\ calls' = calls + 1
    /\ IF _LOGGER # "None"
       THEN returned' = _LOGGER /\ UNCHANGED <<_LOGGER, handlers>>
       ELSE /\ handlers' = IF handlers["shared_log_fallback"] = <<>>
                           THEN [handlers EXCEPT !["shared_log_fallback"] = <<"console">>]
                           ELSE handlers
            /\ _LOGGER' = "shared_log_fallback"
            /\ returned' = "shared_log_fallback"
    /\ UNCHANGED <<procVars, metaVars, pkgVars, upVars, configured>>

InitLog ==
    /\ tool = "log" /\ pc = "host" /\ outcome = "running" /\ exit = -1
    /\ cause = "none" /\ trace = <<>> /\ clock = 1
    /\ loggerBound = FALSE /\ entry = "api"
    /\ MetaIdle /\ PkgIdle /\ UpIdle /\ LogIdle

NextLog == LoggingCall \/ get_loggerCall

SpecLog == InitLog /\ [][NextLog]_vars

\* ------------------------------------------------------------------------
\* Properties of shared_log
\* ------------------------------------------------------------------------
HandlerCount(name, kind) ==
    Cardinality({i \in 1..Len(handlers[name]) : handlers[name][i] = kind})

\* C24: re-initializing logging never duplicates handlers: whatever calls
\* of Logging(...) and get_logger() were made, get_logger() returned a
\* logger (never None), namely the one of the most recent Logging(...) call
\* that completed, or the fallback logger if none had, and every logger
\* carries at most one console handler and at most one file handler.
LoggingNeverDuplicatesHandlers ==
    tool = "log" =>
        /\ returned # "None"
        /\ returned # "NotCalled" =>
              /\ returned = _LOGGER
              /\ returned = IF configured # "None" THEN configured
                             ELSE "shared_log_fallback"
        /\ \A n \in LoggerNames :
              HandlerCount(n, "console") <= 1 /\ HandlerCount(n, "file") <= 1

ReconfiguredSameLogger ==
    /\ tool = "log" /\ calls = 4 /\ returned = "a|logs" /\ configured = "a|logs"
    /\ handlers["a|logs"] = <<"console", "file">>
    /\ handlers["shared_log_fallback"] = <<"console">>

\* ------------------------------------------------------------------------
\* Properties of the metadata tool
\* ------------------------------------------------------------------------
Called(name) == \E i \in 1..Len(trace) : trace[i] = name
\* number of calls of one kind issued so far
Count(name) == Cardinality({i \in 1..Len(trace) : trace[i] = name})
Reserved == {"benchling", "smartsheet", "provenance"}

\* C1: a dry run never publishes: with dry_run set, whatever the source
\* metadata and the package's metadata, push is never called, in main and
\* in attach_and_push alike.
DryRunNeverPublishes ==
    (tool = "meta" /\ dry_run) => ~Called("push") /\ published = NoMeta

DryRunReturned ==
    /\ tool = "meta" /\ dry_run /\ entry = "main"
    /\ result = "dry_run" /\ outcome = "returned" /\ exit = 0

MergePreservesOtherKeys ==
    (tool = "meta" /\ merged # NoMeta /\ registryMeta.t = "dict") =>
        /\ \A k \in DOMAIN registryMeta.m \ Reserved :
              k \in DOMAIN merged.m /\ merged.m[k] = registryMeta.m[k]
        /\ DOMAIN merged.m \subseteq DOMAIN registryMeta.m \cup Reserved

MergedWithOtherKeys ==
    /\ tool = "meta" /\ merged # NoMeta /\ registryMeta.t = "dict"
    /\ "author" \in DOMAIN merged.m
    /\ benchling_meta = EntityRecord /\ smartsheet_meta = RowRecord
    /\ merged.m["benchling"] = EntityRecord

\* C7: when the column-value scan finds no matching row, main returns 3 and
\* neither set_meta nor push is ever called, with or without --dry-run.
NoMatchReturnsThree ==
    (tool = "meta" /\ resp \in {"nomatch", "column_not_found"}) =>
        /\ outcome = "returned" /\ exit = 3
        /\ ~Called("set_meta") /\ ~Called("push") /\ published = NoMeta

NoMatchSeen ==
    /\ tool = "meta" /\ resp = "nomatch" /\ ~dry_run /\ exit = 3
    /\ trace = <<"http">>

\* the provenance mapping of the merged metadata
MergedProv == merged.m["provenance"].d

ProvKeys == {"integrated_at", "integrator", "sources"}
\* the provenance mapping the registry held, empty if it held none or held
\* something that is not a mapping
RegistryProv ==
    IF /\ registryMeta.t = "dict" /\ "provenance" \in DOMAIN registryMeta.m
       /\ registryMeta.m["provenance"].t = "dict"
    THEN registryMeta.m["provenance"].d ELSE EmptyDict
\* the names in a source list
Names(q) == {q[i] : i \in 1..Len(q)}

\* C13: provenance is updated, not replaced: every field the existing
\* provenance mapping held besides integrated_at, integrator and sources
\* keeps its value and no other field appears; sources lists the sources of
\* this call only, each once (none carried over from an earlier run); an
\* existing provenance that is not a mapping gives way to a fresh mapping
\* of just the three fields.
ProvenanceUpdatedNotReplaced ==
    (tool = "meta" /\ merged # NoMeta) =>
        /\ merged.m["provenance"].t = "dict"
        /\ DOMAIN MergedProv = DOMAIN RegistryProv \cup ProvKeys
        /\ \A k \in DOMAIN RegistryProv \ ProvKeys : MergedProv[k] = RegistryProv[k]
        /\ MergedProv["integrator"] = StrLeaf("metadata_integrator.py")
        /\ LET src == MergedProv["sources"].l IN
           /\ Distinct(src)
           /\ Names(src) \subseteq
                 {n \in {"benchling"} : benchling_meta # None}
                 \cup {n \in {"smartsheet"} : smartsheet_meta # None}
           /\ Truthy(benchling_meta) => "benchling" \in Names(src)
           /\ Truthy(smartsheet_meta) => "smartsheet" \in Names(src)

OwnerKeptSourcesReset ==
    /\ tool = "meta" /\ merged # NoMeta /\ entry = "main"
    /\ RegistryProv = OldProvenance.d
    /\ benchling_meta = EntityRecord /\ smartsheet_meta = None
    /\ MergedProv["owner"] = StrLeaf("lab")
    /\ MergedProv["sources"] = ListLeaf(<<"benchling">>)

\* C14: the reserved keys are overwritten whole, last write wins: after
\* merge_meta the value under benchling (smartsheet) is exactly the metadata
\* supplied for that source in this call, whatever the key held before, and
\* merging the same metadata once more into the result leaves the value
\* under the key as it is.
ReservedKeysOverwritten ==
    (tool = "meta" /\ merged # NoMeta) =>
        /\ benchling_meta # None => merged.m["benchling"] = benchling_meta
        /\ smartsheet_meta # None => merged.m["smartsheet"] = smartsheet_meta
        /\ \A tick \in 0..MaxTick :
              LET again == merge_meta(merged, benchling_meta, smartsheet_meta,
                                      now_iso_z(clock, tick))
              IN  /\ benchling_meta # None => again.m["benchling"] = merged.m["benchling"]
                  /\ smartsheet_meta # None => again.m["smartsheet"] = merged.m["smartsheet"]

OldBenchlingOverwritten ==
    /\ tool = "meta" /\ merged # NoMeta
    /\ registryMeta.t = "dict" /\ "benchling" \in DOMAIN registryMeta.m
    /\ registryMeta.m["benchling"] = OldBenchling
    /\ benchling_meta = EntityRecord
    /\ "legacy" \notin DOMAIN merged.m["benchling"].d

\* the calls made after the fetch of the external metadata
RegistryCalls == SelectSeq(trace, LAMBDA c : c # "http")
\* the run goes on after the fetch as it does after a successful one: the
\* package is browsed, then (unless dry-run) set_meta and push are called,
\* and only a failure of one of these registry calls can end it early
ContinuesAsForSuccess ==
    /\ cause \in {"none", "registry"}
    /\ exit \in {-1, 0, 1}
    /\ exit = 1 <=> cause = "registry"
    /\ \E n \in 0..3 : RegistryCalls = SubSeq(<<"browse", "set_meta", "push">>, 1, n)
    /\ (pc = "done" /\ cause = "none") =>
          /\ exit = 0
          /\ RegistryCalls = IF dry_run THEN <<"browse">>
                              ELSE <<"browse", "set_meta", "push">>

\* C15: a 404 from the lab-record API is a non-fatal result: get_entity
\* returns the record of the requested entity id with not_found = True, and
\* main merges that record under benchling, publishes it (unless dry-run)
\* and returns 0.
NotFoundIsNotFatal ==
    (tool = "meta" /\ resp = "404") =>
        /\ benchling_meta = Dict([entity_id |-> StrLeaf(EntityId), not_found |-> TrueLeaf])
        /\ merged # NoMeta => merged.m["benchling"] = benchling_meta
        /\ published # NoMeta => published.m["benchling"] = benchling_meta
        /\ result = "pushed" => published # NoMeta
        /\ ContinuesAsForSuccess

NotFoundPublished ==
    /\ tool = "meta" /\ resp = "404" /\ ~dry_run
    /\ pc = "done" /\ exit = 0 /\ result = "pushed"
    /\ published.m["benchling"] = NotFoundRecord

\* the record main writes when the fetch from the source raised
ErrorRecordOf(src) ==
    IF src = "benchling"
    THEN Dict([entity_id |-> StrLeaf(EntityId), error |-> StrLeaf("err")])
    ELSE Dict([sheet_id |-> StrLeaf(SheetId), error |-> StrLeaf("err")])
SourceMeta == IF source = "benchling" THEN benchling_meta ELSE smartsheet_meta

\* C16: a failed fetch (network error or HTTP error status) from either
\* source does not abort the metadata tool: the failure becomes a record of
\* the source id and an error field, that record is merged under the
\* source's reserved key, and the run goes on to set_meta and push as it
\* does after a successful fetch.
FetchFailureIsRecorded ==
    (tool = "meta" /\ resp \in {"error", "error2"}) =>
        /\ SourceMeta = ErrorRecordOf(source)
        /\ merged # NoMeta => merged.m[source] = ErrorRecordOf(source)
        /\ published # NoMeta => published.m[source] = ErrorRecordOf(source)
        /\ result = "pushed" => published # NoMeta
        /\ ContinuesAsForSuccess

SecondRequestFailedPublished ==
    /\ tool = "meta" /\ source = "smartsheet" /\ useRowId /\ resp = "error2"
    /\ trace = <<"http", "http", "browse", "set_meta", "push">>
    /\ pc = "done" /\ exit = 0
    /\ published.m["smartsheet"] = SmartsheetErrorRecord

\* C21: a non-dry-run attach_and_push loads the package before it merges,
\* calls set_meta with the merged metadata before push, and calls push at
\* most once; a failing load or set_meta ends it before push, and every
\* failure of a registry call makes main return 1 (a host sees it raised).
AttachLoadsSetsThenPushes ==
    (tool = "meta" /\ ~dry_run) =>
        /\ \E n \in 0..3 : RegistryCalls = SubSeq(<<"browse", "set_meta", "push">>, 1, n)
        /\ merged # NoMeta => pkgLoaded /\ Called("browse")
        /\ Count("push") <= 1
        /\ Called("push") => pkgMeta = merged
        /\ published # NoMeta => published = merged /\ result = "pushed"
        /\ result = "pushed" => RegistryCalls = <<"browse", "set_meta", "push">>
        /\ cause = "registry" =>
              /\ pc = "done" /\ published = NoMeta /\ result = "none"
              /\ entry = "main" => outcome = "returned" /\ exit = 1
              /\ entry = "api" => outcome = "raised"

SetMetaFailedMainReturnsOne ==
    /\ tool = "meta" /\ ~dry_run /\ entry = "main" /\ cause = "registry"
    /\ trace = <<"http", "browse", "set_meta">> /\ exit = 1

\* the rows of the sheet with a cell of the run column that holds the run id
MatchingRows ==
    {i \in 1..Len(sheet.rows) :
        \E j \in 1..Len(sheet.rows[i].cells), k \in 1..Len(sheet.columns) :
            /\ sheet.columns[k].title = RunColumn
            /\ sheet.rows[i].cells[j].columnId = sheet.columns[k].id
            /\ sheet.rows[i].cells[j].value = RunId}
RunColumnExists == \E k \in 1..Len(sheet.columns) : sheet.columns[k].title = RunColumn

\* C22: get_row_by_run_column returns a mapped row exactly when the sheet
\* has the named column and some row has a cell of that column equal to
\* run_id, and then the row is the first such row of the sheet; without the
\* column it returns row None with error column_not_found, and without a
\* matching row it returns row None and no error field.
ScanReturnsFirstMatch ==
    (tool = "meta" /\ scanned # NotScanned) =>
        /\ scanned.sheet_id = SheetId
        /\ scanned.row # NoneRow <=> (RunColumnExists /\ MatchingRows # {})
        /\ scanned.row # NoneRow =>
              LET first == CHOOSE i \in MatchingRows : \A j \in MatchingRows : i <= j
              IN  /\ scanned.row.m["_rowId"] = sheet.rows[first].id
                  /\ scanned.row.m[RunColumn] = RunId
                  /\ DOMAIN scanned = {"sheet_id", "row"}
        /\ ~RunColumnExists =>
              scanned = [sheet_id |-> SheetId, row |-> NoneRow, error |-> "column_not_found"]
        /\ (RunColumnExists /\ MatchingRows = {}) =>
              scanned = [sheet_id |-> SheetId, row |-> NoneRow]

SecondOfTwoMatchesSkipped ==
    /\ tool = "meta" /\ scanned # NotScanned
    /\ MatchingRows = {1, 2} /\ Len(sheet.columns) = 2
    /\ scanned.row.m = [Note |-> "r1", Run |-> "r1", _rowId |-> "row1"]

\* ------------------------------------------------------------------------
\* Properties of the packaging tool
\* ------------------------------------------------------------------------
\* C4: the manifest holds exactly one entry per input key: after the loop
\* has handled the first setIdx keys its logical paths are exactly those
\* keys (a repeated key has one entry, not two), the entry of key k has
\* locator s3://<bucket>/<k>, and what is pushed is that manifest built from
\* the whole, non-empty key list.
ManifestOneEntryPerKey ==
    tool = "pkg" =>
        /\ DOMAIN manifest = {keys[j] : j \in 1..setIdx}
        /\ \A k \in DOMAIN manifest : manifest[k] = "s3://" \o Bucket \o "/" \o k
        /\ \A i \in 1..Len(pushes) :
              /\ pushes[i].entries = manifest
              /\ setIdx = Len(keys) /\ keys # <<>>

RepeatedKeysPushed ==
    /\ tool = "pkg" /\ Len(pushes) = 1
    /\ keys = <<"a", "b", "a">>
    /\ pushes[1].entries = [a |-> "s3://bkt/a", b |-> "s3://bkt/b"]

\* C5: with an empty key list (nothing listed, or no non-blank line on
\* stdin) the packaging tool makes no registry call (no Package.set, no
\* quilt3.config, no push) and ends in failure: main with a non-zero exit
\* code, make_package_from_keys with ValueError.
EmptyKeyListFails ==
    (tool = "pkg" /\ keys = <<>>) =>
        /\ ~Called("set") /\ ~Called("config") /\ ~Called("push")
        /\ pushes = <<>>
        /\ pc = "done" =>
              /\ entry = "main" => exit \in {1, 2, 3}
              /\ entry = "api" => outcome \in {"raised", "crashed"}

BlankStdinRejected ==
    /\ tool = "pkg" /\ entry = "main" /\ mode = "stdin"
    /\ stdinLines = <<" ", " ">> /\ keys = <<>>
    /\ pc = "done" /\ outcome = "returned" /\ exit = 2

\* C18: a listing failure propagates at once: a listing request that raised
\* is the last call the packaging tool makes (no second attempt, no further
\* page), the keys of the pages read before it are not packaged (no
\* registry call at all), and main returns 1.
ListingFailurePropagates ==
    (tool = "pkg" /\ Count("list") > pageIdx) =>
        /\ Count("list") = pageIdx + 1
        /\ trace[Len(trace)] = "list"
        /\ ~Called("set") /\ ~Called("set_meta") /\ ~Called("config") /\ ~Called("push")
        /\ manifest = <<>> /\ pushes = <<>>
        /\ pc = "done" /\ outcome = "returned" /\ exit = 1 /\ cause = "listing"

SecondPageFailed ==
    /\ tool = "pkg" /\ mode = "list" /\ Len(pages) = 2 /\ pageIdx = 1
    /\ keys = <<"a", "b">> /\ trace = <<"list", "list">> /\ exit = 1

\* the quilt3 calls of make_package_from_keys, in the order issued
PackageCalls == SelectSeq(trace, LAMBDA c : c # "list")
\* the calls of a complete run: one set per key, set_meta, config when a
\* registry is given, push
PublishOrder ==
    [i \in 1..Len(keys) |-> "set"] \o <<"set_meta">>
    \o (IF registry THEN <<"config">> ELSE <<>>) \o <<"push">>

\* C20: the packaging tool publishes in a fixed order and once: the calls
\* made so far are always an initial part of "set for every key, set_meta,
\* config (only with a registry), push"; a completed run made all of them
\* and pushed one package, with selector_fn_copy_local; a call that raises
\* ends the run (the exception reaches the caller, main returns 1) before
\* any later call, so push is not called after a failure.
PublishesInOrderOnce ==
    tool = "pkg" =>
        /\ \E n \in 0..Len(PublishOrder) : PackageCalls = SubSeq(PublishOrder, 1, n)
        /\ Count("push") <= 1 /\ Len(pushes) <= 1
        /\ \A i \in 1..Len(pushes) :
              /\ pushes[i].selector_fn = "selector_fn_copy_local"
              /\ pushes[i].meta = pkgInfo /\ pkgInfo # <<>>
              /\ PackageCalls = PublishOrder
        /\ (pc = "done" /\ cause = "none") =>
              PackageCalls = PublishOrder /\ Len(pushes) = 1
        /\ cause = "registry" =>
              /\ pc = "done" /\ pushes = <<>>
              /\ entry = "main" => outcome = "returned" /\ exit = 1
              /\ entry = "api" => outcome = "raised"
              /\ PackageCalls # PublishOrder => ~Called("push")

PublishedWithRegistry ==
    /\ tool = "pkg" /\ registry /\ Len(keys) = 2 /\ Len(pushes) = 1
    /\ PackageCalls = <<"set", "set", "set_meta", "config", "push">>
    /\ pc = "done" /\ cause = "none"

\* the failure case of C20: set_meta raised, nothing was called after it
SetMetaFailedNoPush ==
    /\ tool = "pkg" /\ cause = "registry" /\ entry = "api"
    /\ PackageCalls = <<"set", "set_meta">> /\ outcome = "raised"

\* ------------------------------------------------------------------------
\* Properties of the uploader
\* ------------------------------------------------------------------------
\* the key the uploader is to give the i-th file of the walk: its path
\* relative to the input directory with every backslash turned into a
\* forward slash, below the configured prefix without its outer slashes
WantedKey(i) ==
    LET rel == [j \in 1..Len(Walk(tree, sep)[i]) |->
                  IF Walk(tree, sep)[i][j] = "\\" THEN "/" ELSE Walk(tree, sep)[i][j]]
        pfx == CASE rawPrefix \in {<<"/", "p", "/">>, <<"/", "/", "p", "/">>} -> <<"p">>
                 [] rawPrefix = <<"p", "/", "q", "/">> -> <<"p", "/", "q">>
                 [] rawPrefix \in {AbsentPrefix, NullPrefix, <<"/">>} -> <<>>
                 [] OTHER -> rawPrefix
    IN  IF pfx = <<>> THEN rel ELSE pfx \o <<"/">> \o rel

\* C6 as stated: for a directory with N regular files, a run of
\* upload_path_to_s3 in which no upload call fails issues exactly N upload
\* calls, one per file, each with the wanted key.
UploadsEveryFile ==
    (tool = "up" /\ pathKind = "dir" /\ Called("client") /\ pc = "done"
     /\ cause # "upload") =>
        /\ Len(uploads) = CountFiles(tree)
        /\ \A i \in 1..Len(uploads) : uploads[i] = WantedKey(i)

\* the same where shared_log has a `logger` attribute
UploadsEveryFileWhenLoggerBound == loggerBound => UploadsEveryFile

\* C8 as stated: when the config loads, the bucket key resolves, the input
\* path exists and every upload call succeeds, _run returns 0.
UploaderSuccessExitsZero ==
    (tool = "up" /\ entry = "main" /\ cfgState = "ok" /\ bucketKnown
     /\ pathKind \in {"file", "dir"} /\ pc = "done" /\ cause # "upload") =>
        outcome = "returned" /\ exit = 0

\* C10: the first failing upload call ends the batch: it is the last call
\* issued (files remain in the queue unvisited), the exception leaves
\* upload_path_to_s3, and _run returns a non-zero code.
FirstFailureAborts ==
    (tool = "up" /\ cause = "upload") =>
        /\ pc = "done" /\ inflight = 0
        /\ Len(uploads) = Len(uploaded_keys) + 1
        /\ Len(queue) + Len(uploaded_keys) =
              (IF pathKind = "dir" THEN CountFiles(tree) ELSE 1)
        /\ entry = "api" => outcome = "raised"
        /\ entry = "main" => outcome = "returned" /\ exit \in {1, 2, 3}

FirstOfTwoFailed ==
    /\ tool = "up" /\ entry = "main" /\ cause = "upload" /\ pathKind = "dir"
    /\ Len(queue) = 2 /\ Len(uploads) = 1 /\ uploaded_keys = <<>> /\ exit = 1

\* C19: every bucket entry of a loaded configuration holds a normalized
\* prefix: the stored Prefix is a string that neither starts nor ends with
\* a slash, it is empty when the configured Prefix is absent, null or
\* empty, and normalizing it again returns it unchanged.
StoredPrefixNormalized ==
    (tool = "up" /\ entry = "main" /\ cfgState = "ok" /\ pc # "config") =>
        /\ prefix \notin {AbsentPrefix, NullPrefix}
        /\ prefix # <<>> => Head(prefix) # "/" /\ prefix[Len(prefix)] # "/"
        /\ rawPrefix \in {AbsentPrefix, NullPrefix, <<>>} => prefix = <<>>
        /\ _normalize_prefix(prefix) = prefix

SlashesStripped ==
    /\ tool = "up" /\ entry = "main" /\ cfgState = "ok" /\ pc = "bucket"
    /\ rawPrefix = <<"/", "/", "p", "/">> /\ prefix = <<"p">>

\* the configured prefix without its outer slashes
WantedPrefix ==
    CASE rawPrefix \in {<<"/", "p", "/">>, <<"/", "/", "p", "/">>} -> <<"p">>
      [] rawPrefix = <<"p", "/", "q", "/">> -> <<"p", "/", "q">>
      [] rawPrefix \in {AbsentPrefix, NullPrefix, <<"/">>} -> <<>>
      [] OTHER -> rawPrefix
\* the base name below the prefix, the bare name when the prefix is empty
KeyOfName(name) == IF WantedPrefix = <<>> THEN name ELSE WantedPrefix \o <<"/">> \o name

\* C23 as stated: for a single regular file upload_path_to_s3 issues exactly
\* one upload call, keyed by the file's base name under the normalized
\* prefix, and returns the one-element list of that key; for a path that is
\* neither file nor directory it raises ValueError and issues no upload.
SingleFileUploadedOnce ==
    (tool = "up" /\ Called("client") /\ pc = "done") =>
        /\ (pathKind = "file" /\ cause # "upload") =>
              /\ uploads = <<KeyOfName(fileName)>>
              /\ uploaded_keys = uploads
              /\ entry = "api" => outcome = "returned"
        /\ pathKind = "other" =>
              /\ uploads = <<>> /\ uploaded_keys = <<>>
              /\ entry = "api" => outcome = "raised" /\ cause = "ValueError"

\* the same where shared_log has a `logger` attribute and the name holds no
\* backslash
SingleFileUploadedOnceWhenLoggerBound ==
    (loggerBound /\ fileName # <<"a", "\\", "b">>) => SingleFileUploadedOnce

\* C11: uploads proceed strictly one at a time: at most one upload_file call
\* is in flight, it is in flight exactly while upload_path_to_s3 awaits it,
\* and every call issued before the latest one has completed before the
\* latest one was issued.
UploadsOneAtATime ==
    tool = "up" =>
        /\ inflight \in {0, 1}
        /\ inflight = 1 <=> pc = "await"
        /\ Len(uploads) = Len(uploaded_keys) + inflight
                             + (IF cause = "upload" THEN 1 ELSE 0)
        /\ \A i \in 1..Len(uploads) - 1 : uploaded_keys[i] = uploads[i]

SecondUploadInFlight ==
    /\ tool = "up" /\ pathKind = "dir" /\ CountFiles(tree) = 2
    /\ Len(uploads) = 2 /\ Len(uploaded_keys) = 1 /\ inflight = 1

\* ------------------------------------------------------------------------
\* The three tools together
\* ------------------------------------------------------------------------
InitAll == InitMeta \/ InitPkg \/ InitUp
NextAll == NextMeta \/ NextPkg \/ NextUp
SpecAll == InitAll /\ [][NextAll]_vars

ConfigCauses == {"credential", "argument", "config"}
InputCauses == {"no_match", "empty_keys", "input_path"}
WorkDone ==
    CASE tool = "meta" -> result \in {"dry_run", "pushed"}
      [] tool = "pkg" -> Len(pushes) = 1
      [] OTHER -> queue = <<>> /\ uploaded_keys = uploads /\ Called("client")

\* a run from the command line that has ended without a call to any
\* external service: no HTTP request, no registry call, no S3 client, no
\* upload
EndedBeforeAnyCall == pc = "done" /\ trace = <<>> /\ uploads = <<>> /\ inflight = 0

\* C17 as stated: configuration and input errors are caught early: in the
\* metadata tool a missing credential, or a missing --run-id with
\* --smartsheet-run-column, returns 2 before any HTTP request or registry
\* call; in the uploader a missing or invalid config file or an unknown
\* bucket key returns 2, and a non-existent input path returns 3, before any
\* S3 client is opened or upload call issued.
ConfigErrorsCaughtEarly ==
    (entry = "main" /\ pc = "done") =>
        /\ (tool = "meta" /\ (~hasCred \/ (source = "smartsheet" /\ ~useRowId /\ ~hasRunId)))
              => outcome = "returned" /\ exit = 2 /\ EndedBeforeAnyCall
        /\ (tool = "up" /\ (cfgState # "ok" \/ ~bucketKnown))
              => outcome = "returned" /\ exit = 2 /\ EndedBeforeAnyCall
        /\ (tool = "up" /\ cfgState = "ok" /\ bucketKnown /\ pathKind = "missing")
              => outcome = "returned" /\ exit = 3 /\ EndedBeforeAnyCall

\* the same where shared_log has a `logger` attribute
ConfigErrorsCaughtEarlyWhenLoggerBound == loggerBound => ConfigErrorsCaughtEarly

\* C25 as stated: no run of any of the three tools fails because of a
\* logging call: the logger handle, Logging, log_header and log_footer with
\* the keyword arguments the tools pass are all provided by shared_log.
NoRunFailsOnLogging == cause # "logging"

\* what is left of it where shared_log has a `logger` attribute: the closing
\* log_footer call of the uploader is the one logging call that fails
OnlyFooterFailsWhenLoggerBound ==
    (loggerBound /\ cause = "logging") =>
        /\ tool = "up" /\ entry = "main" /\ exit = 1
        /\ queue = <<>> /\ uploaded_keys = uploads
        /\ ~(FooterArgs \subseteq LogFooterParams)

\* the metadata mapping the package object holds is still the loaded one:
\* merge_meta has returned and set_meta has not been called
MergedNotSet == tool = "meta" /\ merged # NoMeta /\ ~Called("set_meta")

\* C26 as stated: merge_meta does not modify the loaded package's existing
\* metadata: after the call (and so after a dry run) the package's own
\* metadata mapping, its nested provenance mapping included, equals what was
\* loaded, and only the returned mapping carries the changes.
MergeLeavesPackageMetaAlone == MergedNotSet => pkgMeta = registryMeta

\* what does hold: the package's mapping keeps its keys and every value
\* except the one under provenance, which becomes the provenance of the
\* returned mapping when the loaded one was a mapping
MergeTouchesOnlyNestedProvenance ==
    MergedNotSet =>
        /\ pkgMeta.t = registryMeta.t
        /\ DOMAIN pkgMeta.m = DOMAIN registryMeta.m
        /\ \A k \in DOMAIN pkgMeta.m \ {"provenance"} : pkgMeta.m[k] = registryMeta.m[k]
        /\ pkgMeta # registryMeta =>
              /\ registryMeta.m["provenance"].t = "dict"
              /\ pkgMeta.m["provenance"] = merged.m["provenance"]

\* the sources listed in the provenance of the returned mapping
MergedSources == Names(MergedProv["sources"].l)

\* C27 as stated: provenance.sources contains benchling (smartsheet) if and
\* only if this call set the benchling (smartsheet) key of the merged
\* metadata, also when the metadata supplied for the source is an empty
\* mapping.
SourcesMatchKeysSet ==
    (tool = "meta" /\ merged # NoMeta) =>
        /\ "benchling" \in MergedSources <=> benchling_meta # None
        /\ "smartsheet" \in MergedSources <=> smartsheet_meta # None

\* what does hold: a source is listed if and only if the metadata supplied
\* for it is a non-empty mapping, and the records main passes are non-empty
SourcesMatchNonEmptyMetadata ==
    (tool = "meta" /\ merged # NoMeta) =>
        /\ "benchling" \in MergedSources <=> Truthy(benchling_meta)
        /\ "smartsheet" \in MergedSources <=> Truthy(smartsheet_meta)
        /\ entry = "main" => SourcesMatchKeysSet

\* C28: a run for one source leaves the reserved key of the other source
\* untouched: merge_meta called with benchling metadata only returns the
\* smartsheet value the package held, unchanged (and no smartsheet key if it
\* held none), and symmetrically for a call with smartsheet metadata only.
OtherSourceKeyUntouched ==
    (tool = "meta" /\ merged # NoMeta) =>
        /\ (benchling_meta # None /\ smartsheet_meta = None) =>
              IF "smartsheet" \in DOMAIN registryMeta.m
              THEN /\ "smartsheet" \in DOMAIN merged.m
                   /\ merged.m["smartsheet"] = registryMeta.m["smartsheet"]
              ELSE "smartsheet" \notin DOMAIN merged.m
        /\ (smartsheet_meta # None /\ benchling_meta = None) =>
              IF "benchling" \in DOMAIN registryMeta.m
              THEN /\ "benchling" \in DOMAIN merged.m
                   /\ merged.m["benchling"] = registryMeta.m["benchling"]
              ELSE "benchling" \notin DOMAIN merged.m

OldSmartsheetKeptByBenchlingRun ==
    /\ tool = "meta" /\ merged # NoMeta /\ entry = "main" /\ source = "benchling"
    /\ benchling_meta = EntityRecord /\ smartsheet_meta = None
    /\ "smartsheet" \in DOMAIN registryMeta.m
    /\ registryMeta.m["smartsheet"] = OldSmartsheet
    /\ merged.m["smartsheet"] = OldSmartsheet
    /\ merged.m["benchling"] = EntityRecord

\* C29 as stated: the num_objects recorded in the metadata of the published
\* package equals the number of entries of the published manifest, for every
\* non-empty key list, lists with repeated keys included.
NumObjectsCountsManifestEntries ==
    tool = "pkg" =>
        \A i \in 1..Len(pushes) :
            pushes[i].meta[1].num_objects = Cardinality(DOMAIN pushes[i].entries)

\* what does hold: num_objects is the length of the key list, which is the
\* number of manifest entries exactly when no key is repeated
NumObjectsIsLengthOfKeyList ==
    tool = "pkg" =>
        \A i \in 1..Len(pushes) :
            /\ pushes[i].meta[1].num_objects = Len(keys)
            /\ Cardinality(DOMAIN pushes[i].entries) <= Len(keys)
            /\ (\A j, k \in 1..Len(keys) : keys[j] = keys[k] => j = k) =>
                  pushes[i].meta[1].num_objects = Cardinality(DOMAIN pushes[i].entries)

\* upload_path_to_s3 has returned its list, or is about to
ListReturned ==
    /\ tool = "up" /\ Called("client")
    /\ \/ pc = "finish"
       \/ pc = "done" /\ loggerBound /\ cause \in {"none", "logging"}

\* the list holds the keys of the completed upload calls in the order of the
\* calls: all calls made but the one in flight or the one that raised
ReturnsCompletedKeysInOrder ==
    tool = "up" =>
        /\ Len(uploads) = Len(uploaded_keys)
                           + (IF cause = "upload" THEN 1 ELSE inflight)
        /\ \A i \in 1..Len(uploaded_keys) : uploaded_keys[i] = uploads[i]
        /\ ListReturned => inflight = 0 /\ uploaded_keys = uploads

\* the part of a key after the wanted prefix and the slash that follows it
BelowPrefix(key) ==
    IF WantedPrefix = <<>> THEN key
    ELSE SubSeq(key, Len(WantedPrefix) + 2, Len(key))

\* C30 as stated: the list returned by upload_path_to_s3 is exactly the keys
\* of the upload calls that completed, in the order they were issued, and
\* every key built by _make_s3_key contains no backslash, does not start
\* with a slash and has exactly one slash between a non-empty prefix and
\* the relative path.
ReturnedKeysWellFormed ==
    /\ ReturnsCompletedKeysInOrder
    /\ tool = "up" =>
          \A i \in 1..Len(uploads) :
              /\ \A j \in 1..Len(uploads[i]) : uploads[i][j] # "\\"
              /\ uploads[i] # <<>> /\ Head(uploads[i]) # "/"
              /\ WantedPrefix # <<>> =>
                    /\ Len(uploads[i]) >= Len(WantedPrefix) + 2
                    /\ SubSeq(uploads[i], 1, Len(WantedPrefix)) = WantedPrefix
                    /\ uploads[i][Len(WantedPrefix) + 1] = "/"
                    /\ Head(BelowPrefix(uploads[i])) # "/"

\* what does hold: all of it except that the backslashes of the prefix stay
\* in the key; the part below the prefix has none
KeysWellFormedBelowPrefix ==
    /\ ReturnsCompletedKeysInOrder
    /\ tool = "up" =>
          \A i \in 1..Len(uploads) :
              /\ \A j \in 1..Len(BelowPrefix(uploads[i])) : BelowPrefix(uploads[i])[j] # "\\"
              /\ uploads[i] # <<>> /\ Head(uploads[i]) # "/"
              /\ WantedPrefix # <<>> =>
                    /\ Len(uploads[i]) >= Len(WantedPrefix) + 2
                    /\ SubSeq(uploads[i], 1, Len(WantedPrefix)) = WantedPrefix
                    /\ uploads[i][Len(WantedPrefix) + 1] = "/"
                    /\ Head(BelowPrefix(uploads[i])) # "/"

\* C9 as stated: in all three tools 0 is returned only when the work was
\* done, 2 only for configuration, credential or argument errors, 3 only for
\* user-input or no-match errors, and every other failure gives 1.
ExitCodesByCause ==
    (entry = "main" /\ pc = "done") =>
        /\ exit = 0 => WorkDone /\ cause = "none"
        /\ exit = 2 => cause \in ConfigCauses
        /\ exit = 3 => cause \in InputCauses
        /\ cause \notin ConfigCauses \cup InputCauses \cup {"none"} => exit = 1

====
